---- MODULE Spec2Model ----
(***************************************************************************)
(* Model of arithmetic_arranger.py: validation and parsing of a list of   *)
(* arithmetic expressions and their column-aligned rendering.             *)
(*                                                                         *)
(* A Python str is modelled as a sequence of characters; a character is a *)
(* one-character TLA+ string, except for two non-ASCII characters that    *)
(* are written by name:                                                    *)
(*   "HALF"  U+00BD VULGAR FRACTION ONE HALF: str.isnumeric() is True,    *)
(*           but it is no decimal digit and int() raises ValueError;      *)
(*   "AI3"   U+0663 ARABIC-INDIC DIGIT THREE: str.isnumeric() is True,    *)
(*           int() reads it as 3 and str() of the int writes "3".         *)
(***************************************************************************)
EXTENDS Integers, Sequences, FiniteSets, TLC

(***************************************************************************)
(* Constants of the program                                                *)
(***************************************************************************)
PROBLEM_LIMIT == 5
DIGIT_LENGTH_LIMIT == 4
OP1_IDX == 0
SIGN_IDX == 1
OP2_IDX == 2

TABMutant == <<" ", " ", " ">>
TAB == <<" ", " ", " ", " ">>
NEW_LINE == <<"\n">>

ERR_TOO_MANY_PROBLEMS == "Error: Too many problems."
ERR_INVALID_OPERATOR == "Error: Operator must be '+' or '-'."
ERR_NON_DIGITS_PRESENT == "Error: Numbers must only contain digits."
ERR_NUMBER_TOO_LONG == "Error: Numbers cannot be more than four digits."
ERR_NUMBER_OF_TOKENS_MISMATCH == "Error: Expected 3 tokens (two operands and an operator), but got a different amount."
ERR_GENERIC == "Error: An unexpected error occurred."

ERR_IO == 1
ERR_NDP == 2
ERR_NTL == 3
ERR_NOTM == 4

(***************************************************************************)
(* Bounds of the model                                                     *)
(***************************************************************************)
\* longest problem list built from CoreExprs (PROBLEM_LIMIT + 1 is needed)
MaxProblems == 6
\* longest operand token made of the digits of RichDigits
MaxTokLen == 5
\* one more than the nines on either side of the odd character of an OddTokens token
MaxOddLen == 2
\* largest number of tokens of the expressions of CountExprs
MaxTokens == 4

(***************************************************************************)
(* Python built-ins                                                        *)
(***************************************************************************)
AsciiDigits == {"0", "1", "2", "3", "4", "5", "6", "7", "8", "9"}

\* str.split() without arguments separates on runs of whitespace
IsSpace(c) == c \in {" ", "\t", "\n"}

\* characters for which str.isnumeric() is True
IsNumericChar(c) == c \in AsciiDigits \cup {"AI3", "HALF"}

\* characters int() accepts as decimal digits
IsDecimalChar(c) == c \in AsciiDigits \cup {"AI3"}

DigitVal(c) ==
    CASE c = "0" -> 0 [] c = "1" -> 1 [] c = "2" -> 2 [] c = "3" -> 3
      [] c = "4" -> 4 [] c = "5" -> 5 [] c = "6" -> 6 [] c = "7" -> 7
      [] c = "8" -> 8 [] c = "9" -> 9 [] c = "AI3" -> 3

DigitChar(d) ==
    CASE d = 0 -> "0" [] d = 1 -> "1" [] d = 2 -> "2" [] d = 3 -> "3"
      [] d = 4 -> "4" [] d = 5 -> "5" [] d = 6 -> "6" [] d = 7 -> "7"
      [] d = 8 -> "8" [] d = 9 -> "9"

\* str.split(): the maximal runs of non-whitespace characters, in order
RECURSIVE SplitFrom(_, _, _, _)
SplitFrom(s, i, cur, acc) ==
    IF i > Len(s)
    THEN IF cur = <<>> THEN acc ELSE Append(acc, cur)
    ELSE IF IsSpace(s[i])
         THEN SplitFrom(s, i + 1, <<>>, IF cur = <<>> THEN acc ELSE Append(acc, cur))
         ELSE SplitFrom(s, i + 1, Append(cur, s[i]), acc)

split(s) == SplitFrom(s, 1, <<>>, <<>>)

\* str.isnumeric(): at least one character and all of them numeric
isnumeric(s) == Len(s) > 0 /\ \A i \in 1..Len(s) : IsNumericChar(s[i])

\* int(s) raises ValueError unless s is a non-empty run of decimal digits
\* (a token has no whitespace; sign and underscore are not numeric characters)
IntRaises(s) == Len(s) = 0 \/ \E i \in 1..Len(s) : ~IsDecimalChar(s[i])

RECURSIVE IntAcc(_, _, _)
IntAcc(s, i, acc) ==
    IF i > Len(s) THEN acc ELSE IntAcc(s, i + 1, acc * 10 + DigitVal(s[i]))

int(s) == IntAcc(s, 1, 0)

RECURSIVE StrNat(_)
StrNat(n) ==
    IF n < 10 THEN <<DigitChar(n)>> ELSE Append(StrNat(n \div 10), DigitChar(n % 10))

\* str(n) of an int: decimal digits without leading zeros, "-" first if negative
str(n) == IF n < 0 THEN <<"-">> \o StrNat(0 - n) ELSE StrNat(n)

Fill(n, c) == [i \in 1..n |-> c]

\* str.rjust(width, fillchar): s itself when it is at least width long
rjust(s, width, fillchar) ==
    IF Len(s) >= width THEN s ELSE Fill(width - Len(s), fillchar) \o s

max(a, b) == IF a >= b THEN a ELSE b

(***************************************************************************)
(* class Equation, parse_equation, calculate_solution                      *)
(***************************************************************************)
Equation(operand1, operator, operand2, solution) ==
    [operand1 |-> operand1, operator |-> operator,
     operand2 |-> operand2, solution |-> solution]

NoEquation == Equation(<<>>, <<>>, <<>>, 0)

\* what a call of parse_equation ends with: an Equation, an int code, or an
\* exception that leaves the function
RetEquation(eq) == [kind |-> "Equation", code |-> 0, exc |-> "", eq |-> eq]
RetCode(code) == [kind |-> "code", code |-> code, exc |-> "", eq |-> NoEquation]
Raise(exc) == [kind |-> "raise", code |-> 0, exc |-> exc, eq |-> NoEquation]
NoRet == [kind |-> "none", code |-> 0, exc |-> "", eq |-> NoEquation]

calculate_solutionMutant(op1, sign, op2) == op1 + op2
calculate_solution(op1, sign, op2) ==
    IF sign = <<"+">> THEN op1 + op2 ELSE op1 - op2

\* tokens[i] of a Python list; IndexError is decided by the callers' guards
Tok(tokens, i) == tokens[i + 1]

parse_equationMutant(string_equation) ==
    LET tokens == split(string_equation)
        op1 == int(Tok(tokens, OP1_IDX))
        op2 == int(Tok(tokens, OP2_IDX))
    IN  IF Len(tokens) <= OP1_IDX THEN Raise("IndexError")
        ELSE IF ~isnumeric(Tok(tokens, OP1_IDX)) THEN RetCode(ERR_NDP)
        ELSE IF Len(tokens) <= OP2_IDX THEN Raise("IndexError")
        ELSE IF ~isnumeric(Tok(tokens, OP2_IDX)) THEN RetCode(ERR_NDP)
        ELSE IF \/ Len(Tok(tokens, OP1_IDX)) > DIGIT_LENGTH_LIMIT
                \/ Len(Tok(tokens, OP2_IDX)) > DIGIT_LENGTH_LIMIT
             THEN RetCode(ERR_NTL)
        ELSE IF Tok(tokens, SIGN_IDX) # <<"+">> /\ Tok(tokens, SIGN_IDX) # <<"-">>
             THEN RetCode(ERR_IO)
        ELSE IF IntRaises(Tok(tokens, OP1_IDX)) \/ IntRaises(Tok(tokens, OP2_IDX))
             THEN Raise("ValueError")
        ELSE RetEquation(Equation(str(op2), Tok(tokens, SIGN_IDX), str(op1),
                                  calculate_solution(op1, Tok(tokens, SIGN_IDX), op2)))

parse_equation(string_equation) ==
    LET tokens == split(string_equation)
        op1 == int(Tok(tokens, OP1_IDX))
        op2 == int(Tok(tokens, OP2_IDX))
    IN  \* line 92: tokens[0] is read first, tokens[2] only if tokens[0] is numeric
        IF Len(tokens) <= OP1_IDX THEN Raise("IndexError")
        ELSE IF ~isnumeric(Tok(tokens, OP1_IDX)) THEN RetCode(ERR_NDP)
        ELSE IF Len(tokens) <= OP2_IDX THEN Raise("IndexError")
        ELSE IF ~isnumeric(Tok(tokens, OP2_IDX)) THEN RetCode(ERR_NDP)
        \* line 96
        ELSE IF \/ Len(Tok(tokens, OP1_IDX)) > DIGIT_LENGTH_LIMIT
                \/ Len(Tok(tokens, OP2_IDX)) > DIGIT_LENGTH_LIMIT
             THEN RetCode(ERR_NTL)
        \* line 100
        ELSE IF Tok(tokens, SIGN_IDX) # <<"+">> /\ Tok(tokens, SIGN_IDX) # <<"-">>
             THEN RetCode(ERR_IO)
        \* lines 103-104
        ELSE IF IntRaises(Tok(tokens, OP1_IDX)) \/ IntRaises(Tok(tokens, OP2_IDX))
             THEN Raise("ValueError")
        \* line 106
        ELSE RetEquation(Equation(str(op1), Tok(tokens, SIGN_IDX), str(op2),
                                  calculate_solution(op1, Tok(tokens, SIGN_IDX), op2)))

(***************************************************************************)
(* format_equations_string, get_longest_operand_len                        *)
(***************************************************************************)
get_longest_operand_lenMutant(eq) ==
    IF Len(eq.operand1) <= Len(eq.operand2) THEN Len(eq.operand1) ELSE Len(eq.operand2)
get_longest_operand_len(eq) == max(Len(eq.operand1), Len(eq.operand2))

\* range(1, 5) if show_solutions else range(1, 4)
LineRange(show) == IF show THEN 1..4 ELSE 1..3

\* the match statement of lines 126-139: what one equation adds to the line
SegmentMutant(eq, current_line) ==
    LET longest_operand_len == get_longest_operand_len(eq)
    IN  CASE current_line = 1 -> rjust(eq.operand1, longest_operand_len + 2, " ")
          [] current_line = 2 -> eq.operator \o <<" ">> \o eq.operand2
          [] current_line = 3 -> rjust(<<>>, longest_operand_len + 2, "-")
          [] current_line = 4 -> rjust(str(eq.solution), longest_operand_len + 2, " ")
          [] OTHER -> <<"GENERIC">>

Segment(eq, current_line) ==
    LET longest_operand_len == get_longest_operand_len(eq)
    IN  CASE current_line = 1 -> rjust(eq.operand1, longest_operand_len + 2, " ")
          [] current_line = 2 -> eq.operator \o <<" ">> \o rjust(eq.operand2, longest_operand_len, " ")
          [] current_line = 3 -> rjust(<<>>, longest_operand_len + 2, "-")
          [] current_line = 4 -> rjust(str(eq.solution), longest_operand_len + 2, " ")
          [] OTHER -> <<"GENERIC">>

\* the inner loop of lines 122-144 from equation_idx on (0-based), line so far
RECURSIVE LineFrom(_, _, _, _)
LineFrom(eqs, current_line, equation_idx, line) ==
    IF equation_idx >= Len(eqs) THEN line
    ELSE LineFrom(eqs, current_line, equation_idx + 1,
                  line \o Segment(eqs[equation_idx + 1], current_line)
                       \o (IF equation_idx # Len(eqs) - 1 THEN TAB ELSE NEW_LINE))

Line(eqs, current_line) == LineFrom(eqs, current_line, 0, <<>>)

\* the whole of format_equations_string, as the loop of the FormatLine steps
RECURSIVE FormatFrom(_, _, _, _)
FormatFrom(eqs, show, current_line, acc) ==
    IF current_line \notin LineRange(show) THEN acc
    ELSE FormatFrom(eqs, show, current_line + 1, acc \o Line(eqs, current_line))

format_equations_string(eqs, show) == FormatFrom(eqs, show, 1, <<>>)

(***************************************************************************)
(* arithmetic_arranger                                                     *)
(***************************************************************************)
\* what a call of arithmetic_arranger ends with
ReturnError(msg) == [kind |-> "error", msg |-> msg, text |-> <<>>, exc |-> ""]
ReturnBlock(text) == [kind |-> "block", msg |-> "", text |-> text, exc |-> ""]
Propagate(exc) == [kind |-> "raise", msg |-> "", text |-> <<>>, exc |-> exc]
NoResult == [kind |-> "none", msg |-> "", text |-> <<>>, exc |-> ""]

\* the match statement of lines 73-83 on str(ret_val)
ErrorMessage(code) ==
    CASE code = 1 -> ERR_INVALID_OPERATOR
      [] code = 2 -> ERR_NON_DIGITS_PRESENT
      [] code = 3 -> ERR_NUMBER_TOO_LONG
      [] code = 4 -> ERR_NUMBER_OF_TOKENS_MISMATCH
      [] OTHER -> ERR_GENERIC

TooManyMutant(problem_list) == Len(problem_list) > PROBLEM_LIMIT + 1
TooMany(problem_list) == Len(problem_list) > PROBLEM_LIMIT

(***************************************************************************)
(* Inputs                                                                  *)
(***************************************************************************)
SeqsUpTo(S, lo, hi) == UNION {[1..k -> S] : k \in lo..hi}

RECURSIVE Join(_, _)
Join(tokens, sep) ==
    IF tokens = <<>> THEN <<>>
    ELSE IF Len(tokens) = 1 THEN tokens[1]
    ELSE tokens[1] \o sep \o Join(Tail(tokens), sep)

RichDigits == {"0", "9"}
OddChars == {"g", "HALF", "AI3"}

DigitTokens == SeqsUpTo(RichDigits, 1, MaxTokLen)

\* one character of OddChars among at most MaxOddLen - 1 nines, and one at
\* the end of a token that is too long
OddTokens ==
    {Fill(i, "9") \o <<c>> \o Fill(j, "9") :
        c \in OddChars, i \in 0..(MaxOddLen - 1), j \in 0..(MaxOddLen - 1)}
      \cup {Fill(MaxTokLen - 1, "9") \o <<c>> : c \in OddChars}
OperandTokens == DigitTokens \cup OddTokens
OperatorTokens == {<<"+">>, <<"-">>, <<"/">>}

\* every "<operand> <operator> <operand>" over the tokens above
RichExprs ==
    {Join(<<a, op, b>>, <<" ">>) : a \in OperandTokens, op \in OperatorTokens, b \in OperandTokens}

\* 0 to MaxTokens tokens, with different whitespace between and around them
CountTokens == {<<"9">>, <<"g">>, <<"+">>}
CountExprs ==
    {lead \o Join(ts, sep) \o trail :
        ts \in SeqsUpTo(CountTokens, 0, MaxTokens),
        sep \in {<<" ">>, <<"\t", " ">>},
        lead \in {<<>>, <<" ">>},
        trail \in {<<>>, <<" ">>}}

\* "3801 - 2", "1 + 9380", "3 / 855", ""
CoreExprs ==
    { <<"3", "8", "0", "1", " ", "-", " ", "2">>,
      <<"1", " ", "+", " ", "9", "3", "8", "0">>,
      <<"3", " ", "/", " ", "8", "5", "5">>,
      <<>> }

\* "98 + 3g5", "24 + 85215", "HALF + 1", "007 - 10", "9999 + 9999",
\* "1 + 2 3", "12", "1 ++ 2", "3 / 8555"
PairExprs ==
    CoreExprs \cup
    { <<"9", "8", " ", "+", " ", "3", "g", "5">>,
      <<"2", "4", " ", "+", " ", "8", "5", "2", "1", "5">>,
      <<"HALF", " ", "+", " ", "1">>,
      <<"0", "0", "7", " ", "-", " ", "1", "0">>,
      <<"9", "9", "9", "9", " ", "+", " ", "9", "9", "9", "9">>,
      <<"1", " ", "+", " ", "2", " ", "3">>,
      <<"1", "2">>,
      <<"1", " ", "+", "+", " ", "2">>,
      <<"3", " ", "/", " ", "8", "5", "5", "5">> }

\* the argument problems: one expression of the large sets, two of PairExprs,
\* or up to MaxProblems of CoreExprs
ProblemLists ==
    {<<e>> : e \in RichExprs \cup CountExprs}
        \cup SeqsUpTo(PairExprs, 2, 2)
        \cup SeqsUpTo(CoreExprs, 0, MaxProblems)

(***************************************************************************)
(* State and steps of one call arithmetic_arranger(problems, show_solutions)*)
(***************************************************************************)
VARIABLES
    problems,          \* the argument problems
    show_solutions,    \* the argument show_solutions
    pc,                \* "start", "parse", "format" or "done"
    parsed,            \* how many elements of problems the for loop has taken
    ret_val,           \* what the last call of parse_equation ended with
    equations,         \* the list equations
    current_line,      \* the loop variable of format_equations_string
    equations_string,  \* the string format_equations_string builds
    result             \* what the call ended with

vars == <<problems, show_solutions, pc, parsed, ret_val, equations,
          current_line, equations_string, result>>

Init ==
    /\ problems \in ProblemLists
    /\ show_solutions \in BOOLEAN
    /\ pc = "start"
    /\ parsed = 0
    /\ ret_val = NoRet
    /\ equations = <<>>
    /\ current_line = 0
    /\ equations_string = <<>>
    /\ result = NoResult

\* lines 61-64
CheckLimit ==
    /\ pc = "start"
    /\ IF TooMany(problems)
       THEN /\ result' = ReturnError(ERR_TOO_MANY_PROBLEMS)
            /\ pc' = "done"
       ELSE /\ result' = result
            /\ pc' = "parse"
    /\ UNCHANGED <<problems, show_solutions, parsed, ret_val, equations,
                   current_line, equations_string>>

\* one iteration of the loop of lines 67-83
ParseNext ==
    /\ pc = "parse"
    /\ parsed < Len(problems)
    /\ LET r == parse_equation(problems[parsed + 1])
       IN  /\ ret_val' = r
           /\ parsed' = parsed + 1
           /\ CASE r.kind = "Equation" ->
                     /\ equations' = Append(equations, r.eq)
                     /\ UNCHANGED <<pc, result>>
                [] r.kind = "code" ->
                     /\ result' = ReturnError(ErrorMessage(r.code))
                     /\ pc' = "done"
                     /\ UNCHANGED equations
                [] r.kind = "raise" ->
                     /\ result' = Propagate(r.exc)
                     /\ pc' = "done"
                     /\ UNCHANGED equations
    /\ UNCHANGED <<problems, show_solutions, current_line, equations_string>>

\* line 85 calls format_equations_string; lines 114-117
StartFormat ==
    /\ pc = "parse"
    /\ parsed = Len(problems)
    /\ pc' = "format"
    /\ current_line' = 1
    /\ equations_string' = <<>>
    /\ UNCHANGED <<problems, show_solutions, parsed, ret_val, equations, result>>

\* one iteration of the loop of lines 119-146
FormatLine ==
    /\ pc = "format"
    /\ current_line \in LineRange(show_solutions)
    /\ LET line == Line(equations, current_line)
       IN  IF \E i \in 1..Len(line) : line[i] = "GENERIC"
           THEN /\ result' = ReturnError(ERR_GENERIC)
                /\ pc' = "done"
                /\ UNCHANGED <<current_line, equations_string>>
           ELSE /\ equations_string' = equations_string \o line
                /\ current_line' = current_line + 1
                /\ UNCHANGED <<pc, result>>
    /\ UNCHANGED <<problems, show_solutions, parsed, ret_val, equations>>

\* line 148, and the return of line 85
FormatReturn ==
    /\ pc = "format"
    /\ current_line \notin LineRange(show_solutions)
    /\ result' = ReturnBlock(equations_string)
    /\ pc' = "done"
    /\ UNCHANGED <<problems, show_solutions, parsed, ret_val, equations,
                   current_line, equations_string>>

Next == CheckLimit \/ ParseNext \/ StartFormat \/ FormatLine \/ FormatReturn

Spec == Init /\ [][Next]_vars

TypeOK ==
    /\ pc \in {"start", "parse", "format", "done"}
    /\ parsed \in 0..Len(problems)
    /\ result.kind \in {"none", "error", "block", "raise"}

(***************************************************************************)
(* The validation the specification describes, for comparison with the    *)
(* outcomes of the code                                                    *)
(***************************************************************************)
DecimalDigits == AsciiDigits \cup {"AI3"}

AllDecimal(tok) == \A i \in 1..Len(tok) : tok[i] \in DecimalDigits

\* the verdict on one expression: token count, then digits, then length,
\* then operator
Verdict(expr) ==
    LET t == split(expr)
    IN  IF Len(t) # 3 THEN "TokenCountMismatch"
        ELSE IF ~AllDecimal(t[1]) \/ ~AllDecimal(t[3]) THEN "NonDigitOperand"
        ELSE IF Len(t[1]) > 4 \/ Len(t[3]) > 4 THEN "OperandTooLong"
        ELSE IF t[2] \notin {<<"+">>, <<"-">>} THEN "InvalidOperator"
        ELSE "Equation"

Message(verdict) ==
    CASE verdict = "TokenCountMismatch" -> ERR_NUMBER_OF_TOKENS_MISMATCH
      [] verdict = "NonDigitOperand" -> ERR_NON_DIGITS_PRESENT
      [] verdict = "OperandTooLong" -> ERR_NUMBER_TOO_LONG
      [] verdict = "InvalidOperator" -> ERR_INVALID_OPERATOR

\* what a call of parse_equation ended with, in the words of Verdict
Outcome(r) ==
    CASE r.kind = "Equation" -> "Equation"
      [] r.kind = "raise" -> r.exc
      [] r.kind = "code" /\ r.code = ERR_IO -> "InvalidOperator"
      [] r.kind = "code" /\ r.code = ERR_NDP -> "NonDigitOperand"
      [] r.kind = "code" /\ r.code = ERR_NTL -> "OperandTooLong"
      [] r.kind = "code" /\ r.code = ERR_NOTM -> "TokenCountMismatch"
      [] OTHER -> "none"

Invalid(problem_list) == {i \in 1..Len(problem_list) : Verdict(problem_list[i]) # "Equation"}

FirstInvalid(problem_list) ==
    CHOOSE i \in Invalid(problem_list) : \A j \in Invalid(problem_list) : i <= j

Done == pc = "done"

(***************************************************************************)
(* Error handling                                                          *)
(***************************************************************************)
\* C1: with at most 5 expressions, when the first invalid expression is one
\* that does not split into exactly 3 tokens, the call returns the
\* TokenCountMismatch message.
C1_TokenCountMismatchReturned ==
    (/\ Done
     /\ Len(problems) <= PROBLEM_LIMIT
     /\ Invalid(problems) # {}
     /\ Verdict(problems[FirstInvalid(problems)]) = "TokenCountMismatch")
        => result = ReturnError(ERR_NUMBER_OF_TOKENS_MISMATCH)

\* C2: every call ends by returning an error message or a formatted block;
\* no exception leaves arithmetic_arranger.
C2_NoExceptionLeavesTheCall ==
    Done => result.kind \in {"error", "block"}

\* C3: a list of more than 5 expressions gives "Error: Too many problems."
\* whatever its elements and the flag are, and no element is parsed first.
C3_TooManyProblemsFirst ==
    (Len(problems) > PROBLEM_LIMIT /\ pc # "start")
        => /\ Done
           /\ result = ReturnError(ERR_TOO_MANY_PROBLEMS)
           /\ parsed = 0
           /\ ret_val = NoRet
           /\ equations = <<>>

\* a list of more than 5 expressions with a malformed element and the flag set
C3_Witness ==
    /\ Done
    /\ Len(problems) > PROBLEM_LIMIT
    /\ show_solutions
    /\ \E i \in 1..Len(problems) : Verdict(problems[i]) = "TokenCountMismatch"
    /\ \E i \in 1..Len(problems) : Verdict(problems[i]) = "Equation"
    /\ result.msg = ERR_TOO_MANY_PROBLEMS

\* C4: on an expression of exactly 3 tokens parse_equation yields
\* NonDigitOperand if an operand has a non-digit character, otherwise
\* OperandTooLong if an operand has more than 4 characters, otherwise
\* InvalidOperator if the operator is neither "+" nor "-", otherwise an
\* Equation.
C4_PrecedenceOnThreeTokens ==
    (parsed > 0 /\ Len(split(problems[parsed])) = 3)
        => Outcome(ret_val) = Verdict(problems[parsed])

\* C5: with at most 5 expressions of which one is invalid, the call returns
\* exactly the message of the invalid expression of smallest index, and
\* nothing of the expressions before it.
C5_FirstErrorReturned ==
    (Done /\ Len(problems) <= PROBLEM_LIMIT /\ Invalid(problems) # {})
        => result = ReturnError(Message(Verdict(problems[FirstInvalid(problems)])))

\* The precedence of C4 where no operand has a numeric character that is no
\* decimal digit: digits, then length, then operator.
PrecedenceOnDecimalOperands ==
    (/\ parsed > 0
     /\ Len(split(problems[parsed])) = 3
     /\ \A i \in 1..Len(problems[parsed]) : problems[parsed][i] # "HALF")
        => Outcome(ret_val) = Verdict(problems[parsed])

(***************************************************************************)
(* Reading the formatted block                                             *)
(***************************************************************************)
\* the rows of a text, without their "\n"; what follows the last "\n", if
\* anything, is one more row
RECURSIVE RowsFrom(_, _, _, _)
RowsFrom(text, i, cur, acc) ==
    IF i > Len(text)
    THEN IF cur = <<>> THEN acc ELSE Append(acc, cur)
    ELSE IF text[i] = "\n"
         THEN RowsFrom(text, i + 1, <<>>, Append(acc, cur))
         ELSE RowsFrom(text, i + 1, Append(cur, text[i]), acc)

RowsOf(text) == RowsFrom(text, 1, <<>>, <<>>)

\* the call returned a block made from at least one equation
Formatted == Done /\ result.kind = "block" /\ Len(equations) >= 1

\* the column width of an equation
Width(eq) ==
    (IF Len(eq.operand1) > Len(eq.operand2) THEN Len(eq.operand1) ELSE Len(eq.operand2)) + 2

\* the column in which the segment of equation i begins
RECURSIVE Start(_, _)
Start(eqs, i) == IF i = 1 THEN 1 ELSE Start(eqs, i - 1) + Width(eqs[i - 1]) + 4

RowLen(eqs) == Start(eqs, Len(eqs)) + Width(eqs[Len(eqs)]) - 1

\* the characters of a row in the columns of equation i
Window(row, eqs, i) == SubSeq(row, Start(eqs, i), Start(eqs, i) + Width(eqs[i]) - 1)

\* s after as many spaces as it takes to fill w columns
RightAligned(s, w) == [k \in 1..(w - Len(s)) |-> " "] \o s

Rows == RowsOf(result.text)

RowsWellFormed ==
    /\ Len(Rows) >= 3
    /\ \A r \in 1..Len(Rows) : Len(Rows[r]) = RowLen(equations)

(***************************************************************************)
(* Layout                                                                  *)
(***************************************************************************)
\* C6: every row of the block has the length the column widths
\* max(len(operand1), len(operand2)) + 2 and the separators add up to, the
\* dash line of each equation fills exactly its column width, and the
\* solution with its sign fits into the column width.
C6_ColumnWidth ==
    Formatted =>
        /\ RowsWellFormed
        /\ \A i \in 1..Len(equations) :
              /\ Window(Rows[3], equations, i) = [k \in 1..Width(equations[i]) |-> "-"]
              /\ Len(str(equations[i].solution)) <= Width(equations[i])
              /\ \A r \in 1..Len(Rows) :
                    Window(Rows[r], equations, i)[Width(equations[i])] # " "

\* a block with solutions in which a sum has 5 digits and a difference is
\* negative with as many digits as the longer operand
C6_Witness ==
    /\ Formatted
    /\ show_solutions
    /\ \E i \in 1..Len(equations) :
          \/ equations[i].solution = 19998
          \/ equations[i].solution = 0 - 9999

\* the operand as int() reads it and str() writes it: ASCII digits, no
\* leading zeros
RECURSIVE StripZeros(_)
StripZeros(s) == IF Len(s) > 1 /\ s[1] = "0" THEN StripZeros(Tail(s)) ELSE s

Canonical(tok) == StripZeros([k \in 1..Len(tok) |-> IF tok[k] = "AI3" THEN "3" ELSE tok[k]])

\* C7 as stated: the operands stored and rendered are the first and third
\* token character for character, leading zeros included.
C7_OperandsAsTyped ==
    Formatted =>
        \A i \in 1..Len(equations) :
            LET t == split(problems[i])
                eq == equations[i]
            IN  /\ eq.operand1 = t[1]
                /\ eq.operand2 = t[3]

\* C7 as amended: the operands stored and rendered are the first and third
\* token written as decimal numbers (leading zeros dropped, ASCII digits),
\* the first in row 1 and the second in row 2.
C7_OperandsCanonical ==
    Formatted =>
        /\ RowsWellFormed
        /\ \A i \in 1..Len(equations) :
              LET t == split(problems[i])
                  eq == equations[i]
              IN  /\ eq.operand1 = Canonical(t[1])
                  /\ eq.operand2 = Canonical(t[3])
                  /\ Window(Rows[1], equations, i) = RightAligned(Canonical(t[1]), Width(eq))
                  /\ SubSeq(Window(Rows[2], equations, i), 3, Width(eq))
                        = RightAligned(Canonical(t[3]), Width(eq) - 2)

\* a block for an expression whose operands differ and have leading zeros
C7_Witness ==
    /\ Formatted
    /\ \E i \in 1..Len(equations) :
          LET t == split(problems[i])
          IN  /\ t[1][1] = "0" /\ Len(t[1]) > 1
              /\ Canonical(t[1]) # Canonical(t[3])
              /\ Len(t[1]) # Len(t[3])

\* the value of expression i as its tokens give it
Value(problem) ==
    LET t == split(problem)
    IN  IF t[2] = <<"+">> THEN int(t[1]) + int(t[3]) ELSE int(t[1]) - int(t[3])

\* C8: the block has 3 rows without solutions and 4 with them; the fourth
\* row holds operand1 + operand2 or operand1 - operand2 in decimal, "-"
\* first when negative, right-justified to the column width; the first 3
\* rows do not depend on the flag.
C8_RowsAndSolutions ==
    Formatted =>
        /\ RowsWellFormed
        /\ Len(Rows) = IF show_solutions THEN 4 ELSE 3
        /\ SubSeq(Rows, 1, 3)
              = SubSeq(RowsOf(format_equations_string(equations, ~show_solutions)), 1, 3)
        /\ show_solutions =>
              \A i \in 1..Len(equations) :
                  LET v == Value(problems[i])
                      digits == StrNat(IF v < 0 THEN 0 - v ELSE v)
                      s == IF v < 0 THEN <<"-">> \o digits ELSE digits
                  IN  Window(Rows[4], equations, i) = RightAligned(s, Width(equations[i]))

\* a block with solutions holding a sum and a negative difference
C8_Witness ==
    /\ Formatted
    /\ show_solutions
    /\ \E i \in 1..Len(equations) :
          equations[i].operator = <<"+">> /\ equations[i].solution > 0
    /\ \E i \in 1..Len(equations) :
          equations[i].operator = <<"-">> /\ equations[i].solution < 0

\* C9: in every row 4 spaces and no more separate the segments of
\* consecutive equations, nothing follows the last segment but the "\n"
\* that ends every row, the last one too, and no row is empty.
C9_Separators ==
    Formatted =>
        LET text == result.text
        IN  /\ RowsWellFormed
            /\ text[Len(text)] = "\n"
            /\ Cardinality({k \in 1..Len(text) : text[k] = "\n"}) = Len(Rows)
            /\ Len(text) = Len(Rows) * (RowLen(equations) + 1)
            /\ \A r \in 1..Len(Rows) :
                  /\ Rows[r] # <<>>
                  /\ Rows[r][Len(Rows[r])] # " "
                  /\ \A i \in 1..(Len(equations) - 1) :
                        LET end == Start(equations, i) + Width(equations[i]) - 1
                        IN  /\ SubSeq(Rows[r], end + 1, end + 4) = <<" ", " ", " ", " ">>
                            /\ Rows[r][end] # " "
                            /\ Rows[3][end + 5] = "-"

\* a block of 5 equations, with solutions
C9_Witness == Formatted /\ Len(equations) = PROBLEM_LIMIT /\ show_solutions

\* C10: row 2 of an equation is the operator, one space, and operand2
\* right-justified to the column width less 2; row 1 is operand1
\* right-justified to the column width; so the longer operand is one space
\* away from the operator column.
C10_OperatorAndAlignment ==
    Formatted =>
        /\ RowsWellFormed
        /\ \A i \in 1..Len(equations) :
              LET eq == equations[i]
                  w == Width(eq)
                  row1 == Window(Rows[1], equations, i)
                  row2 == Window(Rows[2], equations, i)
              IN  /\ eq.operator \in {<<"+">>, <<"-">>}
                  /\ row1 = RightAligned(eq.operand1, w)
                  /\ row2 = eq.operator \o <<" ">> \o RightAligned(eq.operand2, w - 2)
                  /\ row1[w] = eq.operand1[Len(eq.operand1)]
                  /\ row2[w] = eq.operand2[Len(eq.operand2)]
                  /\ Len(eq.operand2) >= Len(eq.operand1)
                        => row2 = eq.operator \o <<" ">> \o eq.operand2
                  /\ Len(eq.operand1) > Len(eq.operand2)
                        => row1 = <<" ", " ">> \o eq.operand1

\* a block in which one equation has the longer operand on top and another
\* has it at the bottom
C10_Witness ==
    /\ Formatted
    /\ \E i \in 1..Len(equations) : Len(equations[i].operand1) > Len(equations[i].operand2)
    /\ \E i \in 1..Len(equations) : Len(equations[i].operand2) > Len(equations[i].operand1)

\* The scan of arithmetic_arranger by itself: an error message returned from
\* the loop is the one of the first expression parse_equation gave a code
\* for, every expression before it gave an Equation, and nothing was
\* formatted.
FirstCodeReturned ==
    (Done /\ Len(problems) <= PROBLEM_LIMIT /\ result.kind = "error")
        => /\ parse_equation(problems[parsed]).kind = "code"
           /\ result.msg = ErrorMessage(parse_equation(problems[parsed]).code)
           /\ \A j \in 1..(parsed - 1) : parse_equation(problems[j]).kind = "Equation"
           /\ result.text = <<>>
           /\ equations_string = <<>>
====
